---- MODULE Spec2Model ----
(***************************************************************************)
(* GameSave-Manager: the backup store (BackupManager, src/src/main.js) and *)
(* the monitoring session (SaveMonitor, src/src/utils/configManager.js) as *)
(* a state machine.  The archive directory, metadata.json (the ledger),    *)
(* the watched source file, the '.temp_backup' sibling and the fields of   *)
(* the SaveMonitor objects are the state; every await of createBackup,     *)
(* restoreBackup, start and checkFileChanges is a position at which other  *)
(* handlers, timers and the outside world (the game writing its save file, *)
(* the wall clock) may take steps.                                         *)
(***************************************************************************)
EXTENDS Integers, Sequences, FiniteSets, TLC

\* ------------------------------------------------------------------ bounds
\* Spec: one createBackup at a time.
MaxIds == 2          \* createBackup calls that get past the existence check
MaxEvents == 2       \* events from outside the store, all kinds together:
                     \* rewrites and removals of the source, I/O operations
                     \* that fail for no modelled cause, new BackupManagers,
                     \* and restore, delete and attach-screenshot requests
MaxTime == 1         \* the latest reading of the wall clock (milliseconds)
MaxMaxBackups == 2   \* config.maxBackups is drawn from 1..MaxMaxBackups
\* SpecOverlap: createBackup calls in flight together.
MaxCalls == 2
OverlapIds == 2
OverlapEvents == 1
OverlapTime == 0
\* SpecRestore: a single archive, and room for a restore whose steps fail.
RestoreIds == 1
RestoreEvents == 3
\* SpecDeep: one createBackup at a time, long enough for evictions to reorder
\* a ledger of more than one record.
DeepIds == 4
DeepEvents == 3
DeepTime == 2
DeepMaxBackups == 2
\* SpecLedger: the store on a filesystem where metadata.json may be damaged or
\* removed from outside, and where writes and removals may fail.
LedgerIds == 2
LedgerEvents == 2
LedgerTime == 1
LedgerMaxBackups == 2
LedgerByte == 1
\* SpecForce: one session, its automatic and forced captures, nothing failing.
ForceCalls == 1
ForceIds == 3
ForceEvents == 3
ForceTime == 1
ForceMaxBackups == 1
ForceByte == 2
\* SpecMissing: restores to a target that is not there.
MissingIds == 2
MissingEvents == 3
MissingTime == 0
MissingMaxBackups == 1
MissingByte == 2
\* SpecEvict: a ceiling that is lowered, and archive files that cannot be
\* removed.
EvictIds == 3
EvictEvents == 3
EvictTime == 0
EvictMaxBackups == 2
EvictByte == 1
\* SpecScenario: the save file rewritten ScenarioByte - 1 times under one
\* session.
ScenarioCalls == 2
ScenarioIds == 4
ScenarioEvents == 4
ScenarioTime == 3
ScenarioMaxBackups == 2
ScenarioByte == 4
\* SpecUnreadable: one SaveMonitor object over such a store.
UnreadableIds == 1
UnreadableEvents == 3
UnreadableTime == 0
UnreadableMaxBackups == 1
UnreadableByte == 1
\* SpecMonitor: one SaveMonitor object and its timers.
MonitorCalls == 1    \* start, checkFileChanges and forceBackup runs in flight
MonitorIds == 2
MonitorEvents == 2
MonitorTime == 0
MonitorMaxBackups == 1
MonitorByte == 1
\* SpecSessions: SaveMonitor objects made by successive start requests.
MaxMonitors == 2
SessionCalls == 2
SessionIds == 2
SessionEvents == 3
\* Byte values a file may hold: 1..MaxByte.
MaxByte == 2

VARIABLES
    src,         \* content of the watched file (saveFilePath), or Absent
    tempBackup,  \* content of saveFilePath + '.temp_backup', or Absent
    files,       \* archive directory: backupFileName -> content
    ledger,      \* metadata.json: the sequence metadata.backups
    metadataFile,\* metadata.json as a file: "json", "unparseable" (its bytes
                 \* are not JSON; ledger is what they used to say) or "missing"
    maxBackups,  \* maxBackups of the current BackupManager object
    now,         \* the wall clock (ms) as last read by new Date()
    nextId,      \* ids handed out so far by generateBackupId, plus one
    calls,       \* in-flight createBackup invocations and their locals
    rst,         \* the in-flight restoreBackup invocation and its locals
    events,      \* outside events so far (see MaxEvents)
    limits,      \* the bounds of this behaviour (never changed)
    stable,      \* history: the last step of the store was a createBackup
                 \* that returned a record, and the source has not changed
                 \* since that call began
    last,        \* history: the most recent handler step and what it returned
    monitors,    \* the SaveMonitor objects and their fields
    saveMonitor, \* GameSaveManager.saveMonitor: index into monitors, 0 for null
    tasks,       \* in-flight start / checkFileChanges / forceBackup runs; the
                 \* run in slot k awaits the createBackup call in calls[k]
    mlast        \* history: the most recent SaveMonitor method that returned

storeVars == <<src, tempBackup, files, ledger, metadataFile, maxBackups, now,
               nextId, calls, rst, events, limits, stable, last>>

\* storeVars without events
storeState == <<src, tempBackup, files, ledger, metadataFile, maxBackups, now,
                nextId, calls, rst, limits, stable, last>>

monVars == <<monitors, saveMonitor, tasks, mlast>>

vars == <<src, tempBackup, files, ledger, metadataFile, maxBackups, now, nextId,
          calls, rst, events, limits, stable, last, monitors, saveMonitor, tasks,
          mlast>>

\* ------------------------------------------------------------ file contents
Bytes == 1..MaxByte
\* A file that does not exist.
Absent == <<-1>>
\* What a copy that failed part-way leaves behind: bytes of no valid content.
Partial == <<0>>
\* Contents the game writes.
Contents == {<<b>> : b \in Bytes}
ContentsUpTo(n) == {<<b>> : b \in 1..n}
\* A file of zero bytes.
Empty == << >>

\* A path whose parent directory does not exist either.
NoDir == <<-2>>

Exists(f) == f # Absent /\ f # NoDir

\* A restore that does not make the parent directory of its target.
mkdirSyncSkipped(target) == target

\* main.js lines 760-763: fs.mkdirSync(targetDir, {recursive: true}) when
\* targetDir does not exist; the target itself is still missing.
mkdirSync(target) == IF target = NoDir THEN Absent ELSE target

\* crypto.createHash('md5'), hash.update(data) per chunk, hash.digest('hex'):
\* a streaming fold over the bytes, injective on the contents of the model.
RECURSIVE MD5Update(_, _)
MD5Update(h, data) ==
    IF data = << >> THEN h
    ELSE MD5Update(h * (MaxByte + 1) + Head(data), Tail(data))

calculateFileHash(data) == MD5Update(1, data)

\* Date.prototype.toISOString and new Date(string): seconds and milliseconds
\* are written as separate fields and read back.
ToISOString(t) == <<t \div 1000, t % 1000>>
DateParse(s) == s[1] * 1000 + s[2]

\* `${backupId}_${fileName}`: the archive file name is the id with the (one)
\* source basename appended.
BackupFileName(backupId) == <<backupId, "save">>

\* ----------------------------------------------------------------- ledger
NoScreenshot == "null"
Screenshots == {"shot.png"}

\* A read that takes the bytes of metadata.json for a ledger whatever they are.
getMetadataUnchecked == ledger

\* Lines 807-817: a metadata.json that is missing (existsSync is false) or
\* cannot be parsed (readJsonSync throws, caught) is read as an empty ledger.
getMetadata == IF metadataFile = "json" THEN ledger ELSE << >>

\* Lines 572-578 of ensureBackupDir: a missing metadata.json is created with
\* an empty ledger.
ensureBackupDir(state) == IF state = "missing" THEN "json" ELSE state

\* A push that forgets what it is given.
pushAlone(backups, backupInfo) == <<backupInfo>>

\* metadata.backups.push(backupInfo), line 654
push(backups, backupInfo) == Append(backups, backupInfo)

\* metadata.backups[metadata.backups.length - 1]
lastBackup(backups) == backups[Len(backups)]

\* lines 626-637: the duplicate test of createBackup
IsDuplicate(backups, fileHash) ==
    /\ Len(backups) > 0
    /\ lastBackup(backups).hash = fileHash

\* Array.prototype.sort with (a, b) => new Date(b.timestamp) - new Date(a.timestamp):
\* a stable sort, newest first.  Insert(r, s) puts r before the first element
\* that is strictly older, after every element that is as new.
RECURSIVE InsertDesc(_, _)
InsertDesc(r, s) ==
    IF s = << >> THEN <<r>>
    ELSE IF DateParse(r.timestamp) - DateParse(Head(s).timestamp) > 0
         THEN <<r>> \o s
         ELSE <<Head(s)>> \o InsertDesc(r, Tail(s))

\* The comparator with its operands exchanged: oldest first.
RECURSIVE InsertAsc(_, _)
InsertAsc(r, s) ==
    IF s = << >> THEN <<r>>
    ELSE IF DateParse(Head(s).timestamp) - DateParse(r.timestamp) > 0
         THEN <<r>> \o s
         ELSE <<Head(s)>> \o InsertAsc(r, Tail(s))

RECURSIVE SortByTimestampAsc(_)
SortByTimestampAsc(backups) ==
    IF backups = << >> THEN << >>
    ELSE InsertAsc(backups[Len(backups)],
                   SortByTimestampAsc(SubSeq(backups, 1, Len(backups) - 1)))

RECURSIVE SortByTimestampDesc(_)
SortByTimestampDesc(backups) ==
    IF backups = << >> THEN << >>
    ELSE InsertDesc(backups[Len(backups)],
                    SortByTimestampDesc(SubSeq(backups, 1, Len(backups) - 1)))

\* The early return of lines 692-694 left out: the ledger is sorted whatever
\* its length.
backupsToKeepSorted(backups, max) ==
    SubSeq(SortByTimestampDesc(backups), 1,
           IF Len(backups) <= max THEN Len(backups) ELSE max)

\* slice(0, this.maxBackups + 1): one record too many is kept.
backupsToKeepOffByOne(backups, max) ==
    IF Len(backups) <= max THEN backups
    ELSE SubSeq(SortByTimestampDesc(backups), 1, max + 1)

\* cleanupOldBackups: backupsToKeep and backupsToDelete
backupsToKeep(backups, max) ==
    IF Len(backups) <= max THEN backups
    ELSE SubSeq(SortByTimestampDesc(backups), 1, max)

backupsToDelete(backups, max) ==
    IF Len(backups) <= max THEN << >>
    ELSE SubSeq(SortByTimestampDesc(backups), max + 1, Len(backups))

\* The greatest creation time among the records of a ledger (0 if empty).
Newest(backups) ==
    IF backups = << >> THEN 0
    ELSE CHOOSE t \in {DateParse(backups[i].timestamp) : i \in 1..Len(backups)} :
            \A i \in 1..Len(backups) : DateParse(backups[i].timestamp) <= t

\* fs.removeSync of each name that exists
RemoveFiles(dir, names) == [n \in DOMAIN dir \ names |-> dir[n]]

\* A loop over backupsToDelete that the first removeSync to throw ends: the
\* files of the records after it stay.
removeUntilThrow(dir, doomed, stuck) ==
    LET reached(i) == \A j \in 1..i : doomed[j].backupFileName \notin stuck
    IN RemoveFiles(dir, {doomed[i].backupFileName :
                            i \in {j \in 1..Len(doomed) : reached(j)}})

\* Lines 702-712 of cleanupOldBackups: for each record of backupsToDelete,
\* removeSync of its archive file if it exists, inside a try of its own; the
\* files of `stuck` are those whose removeSync throws.
removeEach(dir, doomed, stuck) ==
    RemoveFiles(dir, {doomed[i].backupFileName : i \in 1..Len(doomed)} \ stuck)

\* ------------------------------------------------------------------ state
IdleCall == [pc |-> "idle"]
IdleRestore == [pc |-> "idle"]
NoOp == [op |-> "none"]

InFlight(c) == calls[c].pc # "idle"
\* The await of line 657 taken as a point at which other handlers may run.
NoMicrotaskGate == FALSE
\* A createBackup that has passed `await this.cleanupOldBackups(metadata)` and
\* resumes on the microtask queue: Node drains that queue before it runs any
\* other callback, so no other handler of the process runs in between.
MicrotaskPending == \E c \in DOMAIN calls : calls[c].pc = "write"

\* constructor of SaveMonitor (lines 112-122).  `leaked` stands for a watcher
\* and an interval whose handles were overwritten by a later start() on the
\* same object; `notified` for a change the watcher has seen and not yet
\* reported, `unlinked` for a removal it has seen and not yet reported;
\* `burstChecks` is history: checkFileChanges runs begun since the
\* present burst of triggers began.
NullHash == 0
NewSaveMonitor ==
    [isMonitoring |-> FALSE,
     lastHash |-> NullHash,
     watcher |-> FALSE,
     checkInterval |-> FALSE,
     debounceTimeout |-> "null",
     leaked |-> FALSE,
     notified |-> FALSE,
     unlinked |-> FALSE,
     burstChecks |-> 0]

IdleTask == [kind |-> "none"]

InitEvery(slots, ids, evs, time, maxes, bytes, mons, faulty) ==
    /\ src \in ContentsUpTo(bytes)
                \cup (IF mons > 0 \/ faulty THEN {Empty} ELSE {})
    /\ tempBackup = Absent
    /\ files = << >>
    /\ ledger = << >>
    /\ metadataFile = "json"
    /\ maxBackups \in 1..maxes
    /\ now = 0
    /\ nextId = 1
    /\ calls = [c \in 1..slots |-> IdleCall]
    /\ rst = IdleRestore
    /\ events = 0
    /\ limits = [ids |-> ids, events |-> evs, time |-> time, maxes |-> maxes,
                 bytes |-> bytes, faulty |-> faulty]
    /\ stable = FALSE
    /\ last = NoOp
    /\ monitors = [m \in 1..mons |-> NewSaveMonitor]
    /\ saveMonitor = 0
    /\ tasks = [c \in 1..slots |-> IdleTask]
    /\ mlast = NoOp

\* A filesystem on which the archive directory is not damaged from outside
\* and no write to it and no removal from it fails.
InitAll(slots, ids, evs, time, maxes, bytes, mons) ==
    InitEvery(slots, ids, evs, time, maxes, bytes, mons, FALSE)

\* The store without a SaveMonitor.
InitWith(slots, ids, evs, time, maxes, bytes) ==
    InitAll(slots, ids, evs, time, maxes, bytes, 0)

\* One createBackup at a time, as when a single caller awaits each call.
Init == InitWith(1, MaxIds, MaxEvents, MaxTime, MaxMaxBackups, MaxByte)

\* createBackup calls that overlap, as the poll timer, the debounce timer and
\* 'manual-backup' make them.
InitOverlap ==
    InitWith(MaxCalls, OverlapIds, OverlapEvents, OverlapTime, MaxMaxBackups,
             MaxByte)

InitRestore ==
    InitWith(1, RestoreIds, RestoreEvents, MaxTime, MaxMaxBackups, MaxByte)

InitDeep ==
    InitWith(1, DeepIds, DeepEvents, DeepTime, DeepMaxBackups, MaxByte)

InitLedger ==
    InitEvery(1, LedgerIds, LedgerEvents, LedgerTime, LedgerMaxBackups,
              LedgerByte, 0, TRUE)

InitForce ==
    InitAll(ForceCalls, ForceIds, ForceEvents, ForceTime, ForceMaxBackups,
            ForceByte, 1)

InitMissing ==
    InitWith(1, MissingIds, MissingEvents, MissingTime, MissingMaxBackups,
             MissingByte)

InitEvict ==
    InitEvery(1, EvictIds, EvictEvents, EvictTime, EvictMaxBackups, EvictByte,
              0, TRUE)

\* The save file holds its first content and nothing has been started.
InitScenario ==
    /\ InitAll(ScenarioCalls, ScenarioIds, ScenarioEvents, ScenarioTime,
               ScenarioMaxBackups, ScenarioByte, 1)
    /\ src = <<1>>

InitUnreadable ==
    InitEvery(1, UnreadableIds, UnreadableEvents, UnreadableTime,
              UnreadableMaxBackups, UnreadableByte, 1, TRUE)

\* One SaveMonitor object.
InitMonitor ==
    InitAll(MonitorCalls, MonitorIds, MonitorEvents, MonitorTime,
            MonitorMaxBackups, MonitorByte, 1)

\* The SaveMonitor objects that successive start requests make.
InitSessions ==
    InitAll(SessionCalls, SessionIds, SessionEvents, MonitorTime,
            MonitorMaxBackups, MonitorByte, MaxMonitors)

\* Every in-flight createBackup learns that the source or the store changed
\* under it (history only: `clean` is read by no action's guard).
Disturb(cs) ==
    [c \in DOMAIN calls |->
        IF cs[c].pc = "idle" THEN cs[c] ELSE [cs[c] EXCEPT !.clean = FALSE]]

DisturbRestore(r) ==
    IF r.pc = "idle" THEN r ELSE [r EXCEPT !.disturbed = TRUE]

\* One more outside event, while the behaviour's budget lasts.
OutsideEvent == events < limits.events /\ events' = events + 1

\* The ways an operation on the archive directory may fail for a cause outside
\* the model, where the behaviour has such failures at all.
Faults(kinds) == {"none"} \cup (IF limits.faulty THEN kinds ELSE {})

\* A step that no request from outside begins: a failure in it is an outside
\* event.
Spend(fault) == IF fault = "none" THEN UNCHANGED events ELSE OutsideEvent

\* A request from outside, and a failure in its handler: two outside events.
Request(fault) ==
    LET n == IF fault = "none" THEN 1 ELSE 2
    IN events + n <= limits.events /\ events' = events + n

\* A filesystem operation that reads the file `from` fails: because the file
\* is not there, or for a cause outside the model (disk full, file locked),
\* which the model counts.
Fails(from) ==
    IF Exists(from) THEN OutsideEvent ELSE UNCHANGED events

\* ----------------------------------------------------- the outside world
\* The game rewrites its save file.
WriteSource(d) ==
    /\ d # src
    /\ OutsideEvent
    /\ src' = d
    /\ calls' = Disturb(calls)
    /\ rst' = DisturbRestore(rst)
    /\ stable' = FALSE
    /\ UNCHANGED <<tempBackup, files, ledger, metadataFile, maxBackups, limits, now, nextId, last>>

\* The save file is deleted or moved away.
DeleteSource ==
    /\ Exists(src)
    /\ OutsideEvent
    /\ src' = Absent
    /\ calls' = Disturb(calls)
    /\ rst' = DisturbRestore(rst)
    /\ stable' = FALSE
    /\ UNCHANGED <<tempBackup, files, ledger, metadataFile, maxBackups, limits, now, nextId, last>>

\* The directory of the save file is removed, the file with it.
RemoveTargetDir ==
    /\ src # NoDir
    /\ OutsideEvent
    /\ src' = NoDir
    /\ calls' = Disturb(calls)
    /\ rst' = DisturbRestore(rst)
    /\ stable' = FALSE
    /\ UNCHANGED <<tempBackup, files, ledger, metadataFile, maxBackups, limits, now, nextId, last>>

\* ----------------------------------------------------------- BackupManager
\* Lines 554-559 and 858-860: a new BackupManager is made over the same archive
\* directory and given config.maxBackups ('start-monitoring' does so on every
\* request).  Calls in flight belong to the object they were made on and keep
\* its maxBackups.
NewBackupManager(max) ==
    /\ ~MicrotaskPending
    /\ OutsideEvent
    /\ maxBackups' = max
    /\ metadataFile' = ensureBackupDir(metadataFile)
    /\ UNCHANGED <<src, tempBackup, files, ledger, limits, now, nextId, calls, rst,
                   stable, last>>

\* ----------------------------------------------------------- createBackup
\* Lines 586-608: the existence check, stats, timestamp, id, and the start of
\* `await fs.copy(sourceFilePath, backupFilePath)`.
createBackupHead(c, dt) ==
    /\ ~MicrotaskPending
    /\ now + dt <= limits.time
    /\ now' = now + dt
    /\ calls[c].pc = "idle"
    /\ nextId <= limits.ids
    /\ stable' = FALSE
    /\ IF ~Exists(src)
       THEN /\ last' = [op |-> "createBackup", ret |-> "null", id |-> 0]
            /\ UNCHANGED <<calls, nextId, metadataFile>>
       ELSE /\ metadataFile' = ensureBackupDir(metadataFile)
            /\ calls' = [Disturb(calls) EXCEPT ![c] =
                   [pc |-> "copy",
                    backupId |-> nextId,
                    timestamp |-> ToISOString(now'),
                    size |-> Len(src),
                    max |-> maxBackups,
                    clean |-> \A d \in DOMAIN calls : ~InFlight(d),
                    second |-> stable /\ \A d \in DOMAIN calls : ~InFlight(d),
                    filesBefore |-> Cardinality(DOMAIN files)]]
            /\ nextId' = nextId + 1
            /\ last' = [op |-> "createBackup", ret |-> "pending", id |-> nextId]
    /\ UNCHANGED <<src, tempBackup, files, ledger, maxBackups, limits, rst>>

\* createBackup called on the BackupManager by a caller of its own; of the
\* idle slots the first is used.
CbStart(c, dt) ==
    /\ \A d \in 1..(c - 1) : InFlight(d)
    /\ createBackupHead(c, dt)
    /\ UNCHANGED events

\* Lines 608-618: fs.copy settles.  On success the copy holds the bytes the
\* source has at that moment, the existence check passes and the digest of
\* the SOURCE path is started.  On failure createBackup returns null.
CbCopy(c) ==
    /\ ~MicrotaskPending
    /\ calls[c].pc = "copy"
    /\ \/ /\ Exists(src)
          /\ files' = (BackupFileName(calls[c].backupId) :> src) @@ files
          /\ calls' = [calls EXCEPT ![c].pc = "hash"]
          /\ UNCHANGED <<last, stable, events>>
       \/ /\ Fails(src)
          /\ \/ UNCHANGED files
             \/ /\ Exists(src)
                /\ files' = (BackupFileName(calls[c].backupId) :> Partial) @@ files
          /\ calls' = [calls EXCEPT ![c] = IdleCall]
          /\ last' = [op |-> "createBackup", ret |-> "null",
                      id |-> calls[c].backupId]
          /\ stable' = FALSE
    /\ UNCHANGED <<src, tempBackup, ledger, metadataFile, maxBackups, limits, now, nextId, rst>>

\* Lines 640-649
BackupInfo(call, fileHash) ==
    [id |-> call.backupId,
     backupFileName |-> BackupFileName(call.backupId),
     timestamp |-> call.timestamp,
     size |-> call.size,
     hash |-> fileHash,
     screenshot |-> NoScreenshot]

FileNames(backups) == {backups[i].backupFileName : i \in 1..Len(backups)}

\* Lines 618-657: the digest of the source settles; the ledger is read, the
\* duplicate test made, the record pushed and cleanupOldBackups run (its body
\* has no await: the sort and the file removals happen in this step).
CbHash(c) ==
    /\ ~MicrotaskPending
    /\ calls[c].pc = "hash"
    /\ \/ /\ Exists(src)
          /\ LET fileHash == calculateFileHash(src)
                 metadata == getMetadata
                 pushed == push(metadata, BackupInfo(calls[c], fileHash))
                 doomed == backupsToDelete(pushed, calls[c].max)
             IN \E stuck \in IF limits.faulty
                             THEN SUBSET (FileNames(doomed) \cap DOMAIN files)
                             ELSE {{}} :
                /\ IF stuck = {} THEN UNCHANGED events ELSE OutsideEvent
                /\ calls' = [calls EXCEPT ![c] =
                       [calls[c] EXCEPT !.pc = "write"] @@
                       [fileHash |-> fileHash,
                        isDuplicate |-> IsDuplicate(metadata, fileHash),
                        compared |-> IF Len(metadata) > 0
                                     THEN lastBackup(metadata).timestamp
                                     ELSE << >>,
                        newest |-> Newest(metadata),
                        pushed |-> pushed,
                        stuck |-> stuck,
                        removed |-> (FileNames(doomed) \cap DOMAIN files)
                                        \ stuck,
                        metadata |-> backupsToKeep(pushed, calls[c].max)]]
                /\ files' = removeEach(files, doomed, stuck)
          /\ UNCHANGED <<last, stable>>
       \/ /\ Fails(src)
          /\ calls' = [calls EXCEPT ![c] = IdleCall]
          /\ last' = [op |-> "createBackup", ret |-> "null",
                      id |-> calls[c].backupId]
          /\ stable' = FALSE
          /\ UNCHANGED files
    /\ UNCHANGED <<src, tempBackup, ledger, metadataFile, maxBackups, limits, now, nextId, rst>>

\* A duplicate whose archive file is left in place.
keepDuplicate(dir, call) == dir

\* Lines 674-682: fs.removeSync(backupFilePath) when isDuplicate
removeDuplicate(dir, call) ==
    IF call.isDuplicate
    THEN RemoveFiles(dir, {BackupFileName(call.backupId)})
    ELSE dir

\* Lines 659-684: after the await, metadata.json is written as a whole, and
\* the archive file of a duplicate is removed; backupInfo is returned.  When
\* writeJsonSync throws, the file is as it was and null is returned (685-688).
CbWrite(c) ==
    /\ calls[c].pc = "write"
    /\ \E fault \in Faults({"write"}) :
          /\ Spend(fault)
          /\ IF fault = "none"
             THEN /\ ledger' = calls[c].metadata
                  /\ metadataFile' = "json"
                  /\ files' = removeDuplicate(files, calls[c])
                  /\ last' = [op |-> "createBackup", ret |-> "record",
                              id |-> calls[c].backupId,
                              timestamp |-> calls[c].timestamp,
                              max |-> calls[c].max,
                              isDuplicate |-> calls[c].isDuplicate,
                              evicted |-> Len(calls[c].pushed)
                                              - Len(calls[c].metadata),
                              stuckFirst |->
                                  LET doomed == backupsToDelete(
                                          calls[c].pushed, calls[c].max)
                                  IN \E i, j \in 1..Len(doomed) :
                                        /\ i < j
                                        /\ doomed[i].backupFileName
                                               \in calls[c].stuck
                                        /\ doomed[j].backupFileName
                                               \in calls[c].removed,
                              second |-> calls[c].second /\ calls[c].clean,
                              filesBefore |-> calls[c].filesBefore]
                  /\ stable' = calls[c].clean
             ELSE /\ last' = [op |-> "createBackup", ret |-> "null",
                              id |-> calls[c].backupId]
                  /\ stable' = FALSE
                  /\ UNCHANGED <<ledger, metadataFile, files>>
    /\ calls' = [calls EXCEPT ![c] = IdleCall]
    /\ UNCHANGED <<src, tempBackup, maxBackups, limits, now, nextId, rst>>

\* ------------------------------------------------------------ deleteBackup
\* metadata.backups.findIndex(b => b.id === backupId), 0 for -1
FindIndex(backups, backupId) ==
    IF \E i \in 1..Len(backups) : backups[i].id = backupId
    THEN CHOOSE i \in 1..Len(backups) :
            /\ backups[i].id = backupId
            /\ \A j \in 1..(i - 1) : backups[j].id # backupId
    ELSE 0

\* metadata.backups.splice(backupIndex, 1)
Splice(backups, i) == SubSeq(backups, 1, i - 1) \o SubSeq(backups, i + 1, Len(backups))

\* Lines 774-800, one synchronous handler.  removeSync and writeJsonSync may
\* throw: the catch block returns false, and what was done before stays done.
deleteBackup(backupId) ==
    /\ ~MicrotaskPending
    /\ \E fault \in Faults({"remove", "write"}) :
        LET metadata == getMetadata
            backupIndex == FindIndex(metadata, backupId)
            Gives(ret, why) ==
                last' = [op |-> "deleteBackup", ret |-> ret, id |-> backupId,
                         why |-> why]
        IN /\ Request(fault)
           /\ IF backupIndex = 0
              THEN /\ fault = "none"
                   /\ Gives("false", "RecordNotFound")
                   /\ UNCHANGED <<files, ledger>>
              ELSE LET name == metadata[backupIndex].backupFileName
                   IN \/ /\ fault = "none"
                         /\ files' = RemoveFiles(files, {name})
                         /\ ledger' = Splice(metadata, backupIndex)
                         /\ Gives("true", "ok")
                      \/ /\ fault = "remove"
                         /\ name \in DOMAIN files
                         /\ Gives("false", "RemoveFailed")
                         /\ UNCHANGED <<files, ledger>>
                      \/ /\ fault = "write"
                         /\ files' = RemoveFiles(files, {name})
                         /\ Gives("false", "LedgerWriteFailed")
                         /\ UNCHANGED ledger
    /\ UNCHANGED metadataFile
    /\ calls' = Disturb(calls)
    /\ stable' = FALSE
    /\ UNCHANGED <<src, tempBackup, maxBackups, limits, now, nextId, rst>>

\* -------------------------------------------------- updateBackupScreenshot
\* Every record is given the screenshot.
setEveryScreenshot(backups, i, screenshotPath) ==
    [j \in DOMAIN backups |-> [backups[j] EXCEPT !.screenshot = screenshotPath]]

\* Lines 866-869: the record found by id is given the screenshot.
setScreenshot(backups, i, screenshotPath) ==
    [backups EXCEPT ![i].screenshot = screenshotPath]

\* Lines 862-881, one synchronous handler.  When writeJsonSync throws, the
\* catch block returns false.
updateBackupScreenshot(backupId, screenshotPath) ==
    /\ ~MicrotaskPending
    /\ \E fault \in Faults({"write"}) :
        LET metadata == getMetadata
            i == FindIndex(metadata, backupId)
        IN /\ Request(fault)
           /\ IF i = 0
              THEN /\ fault = "none"
                   /\ last' = [op |-> "updateBackupScreenshot", ret |-> "false",
                               id |-> backupId]
                   /\ UNCHANGED ledger
              ELSE IF fault = "none"
              THEN /\ ledger' = setScreenshot(metadata, i, screenshotPath)
                   /\ last' = [op |-> "updateBackupScreenshot", ret |-> "true",
                               id |-> backupId]
              ELSE /\ last' = [op |-> "updateBackupScreenshot", ret |-> "false",
                               id |-> backupId]
                   /\ UNCHANGED ledger
    /\ calls' = Disturb(calls)
    /\ stable' = FALSE
    /\ UNCHANGED <<src, tempBackup, files, metadataFile, maxBackups, limits, now,
                   nextId, rst>>

\* ----------------------------------------------------------- getBackupList
\* A list in the order of the ledger.
listUnsorted(backups) == backups

\* Line 720: metadata.backups.sort((a, b) => new Date(b.timestamp) - new
\* Date(a.timestamp)), on the object getMetadata has just parsed.
listNewestFirst(backups) == SortByTimestampDesc(backups)

\* Lines 717-725, one synchronous handler: nothing is written.
getBackupList ==
    /\ ~MicrotaskPending
    /\ OutsideEvent
    /\ last' = [op |-> "getBackupList", ret |-> "list", id |-> 0,
                list |-> listNewestFirst(getMetadata)]
    /\ UNCHANGED <<src, tempBackup, files, ledger, metadataFile, maxBackups,
                   limits, now, nextId, calls, rst, stable>>

\* ------------------------------------------- metadata.json, from outside
\* The bytes of metadata.json are damaged (the machine stops during a write,
\* somebody edits the file): they are no longer JSON.
CorruptLedger ==
    /\ limits.faulty
    /\ metadataFile = "json"
    /\ OutsideEvent
    /\ metadataFile' = "unparseable"
    /\ calls' = Disturb(calls)
    /\ stable' = FALSE
    /\ UNCHANGED <<src, tempBackup, files, ledger, maxBackups, limits, now,
                   nextId, rst, last>>

\* metadata.json is deleted.
RemoveLedger ==
    /\ limits.faulty
    /\ metadataFile # "missing"
    /\ OutsideEvent
    /\ metadataFile' = "missing"
    /\ ledger' = << >>
    /\ calls' = Disturb(calls)
    /\ stable' = FALSE
    /\ UNCHANGED <<src, tempBackup, files, maxBackups, limits, now, nextId, rst,
                   last>>

\* ----------------------------------------------------------- restoreBackup
\* The target is the watched file: the 'restore-backup' handler passes
\* saveMonitor.getOriginalPath().
\* The check of the archive file left out.
RestorePrecheckRecordOnly(backupId) ==
    IF FindIndex(getMetadata, backupId) = 0 THEN "RecordNotFound" ELSE "ok"

\* Lines 729-740: which of the two precondition failures the call meets.
RestorePrecheck(backupId) ==
    LET metadata == getMetadata
        i == FindIndex(metadata, backupId)
    IN IF i = 0 THEN "RecordNotFound"
       ELSE IF metadata[i].backupFileName \notin DOMAIN files THEN "ArchiveMissing"
       ELSE "ok"

RestoreReturn(backupId, ret, why) ==
    /\ rst' = IdleRestore
    /\ last' = [op |-> "restoreBackup", ret |-> ret, id |-> backupId, why |-> why]

\* Lines 728-745 and 758-764: the synchronous head of restoreBackup, up to the
\* first await (the copy aside, or the direct copy when target is missing).
RestoreStart(backupId) ==
    /\ ~MicrotaskPending
    /\ rst.pc = "idle"
    /\ OutsideEvent
    /\ IF RestorePrecheck(backupId) # "ok"
       THEN RestoreReturn(backupId, "false", RestorePrecheck(backupId))
       ELSE /\ rst' = [pc |-> IF Exists(src) THEN "tempcopy" ELSE "direct",
                       backupId |-> backupId,
                       hash |-> getMetadata[FindIndex(getMetadata, backupId)].hash,
                       before |-> src,
                       disturbed |-> FALSE]
            /\ last' = [op |-> "restoreBackup", ret |-> "pending",
                        id |-> backupId, why |-> "ok"]
    /\ src' = IF RestorePrecheck(backupId) = "ok" /\ ~Exists(src)
              THEN mkdirSync(src) ELSE src
    /\ calls' = Disturb(calls)
    /\ stable' = FALSE
    /\ UNCHANGED <<tempBackup, files, ledger, metadataFile, maxBackups, limits, now, nextId>>

\* What a failed copy leaves at its destination: what was there, or a torn file.
AfterFailedCopy(dest) == {dest, Partial}

\* Line 745: `await fs.copy(targetPath, tempBackupPath)` settles.
RestoreTempCopy ==
    /\ ~MicrotaskPending
    /\ rst.pc = "tempcopy"
    /\ \/ /\ Exists(src)
          /\ tempBackup' = src
          /\ rst' = [rst EXCEPT !.pc = "maincopy"]
          /\ UNCHANGED <<last, events>>
       \/ /\ Fails(src)
          /\ tempBackup' \in AfterFailedCopy(tempBackup)
          /\ RestoreReturn(rst.backupId, "false", "TempCopyFailed")
    /\ UNCHANGED <<src, files, ledger, metadataFile, maxBackups, limits, now, nextId, calls, stable>>

ArchiveOf(backupId) ==
    IF BackupFileName(backupId) \in DOMAIN files
    THEN files[BackupFileName(backupId)] ELSE Absent

\* Lines 749-751: `await fs.copy(backupFilePath, targetPath)` settles; on
\* success the copy aside is removed and restoreBackup returns true.
RestoreMainCopy ==
    /\ ~MicrotaskPending
    /\ rst.pc = "maincopy"
    /\ \/ /\ Exists(ArchiveOf(rst.backupId))
          /\ src' = ArchiveOf(rst.backupId)
          /\ tempBackup' = Absent
          /\ RestoreReturn(rst.backupId, "true", "ok")
          /\ UNCHANGED events
       \/ /\ Fails(ArchiveOf(rst.backupId))
          /\ src' \in AfterFailedCopy(src)
          /\ rst' = [rst EXCEPT !.pc = "rollback"]
          /\ UNCHANGED <<tempBackup, last>>
    /\ calls' = Disturb(calls)
    /\ stable' = FALSE
    /\ UNCHANGED <<files, ledger, metadataFile, maxBackups, limits, now, nextId>>

\* A catch block that removes the copy aside without copying it back.
RestoreRollbackDropsCopy ==
    /\ ~MicrotaskPending
    /\ rst.pc = "rollback"
    /\ tempBackup' = Absent
    /\ RestoreReturn(rst.backupId, "false", "RolledBack")
    /\ calls' = Disturb(calls)
    /\ stable' = FALSE
    /\ UNCHANGED <<src, files, ledger, metadataFile, maxBackups, limits, now, nextId, events>>

\* Lines 752-757: the catch block: `await fs.copy(tempBackupPath, targetPath)`
\* settles; the copy aside is removed and the error rethrown (false is
\* returned).  When the copy back fails too, its error leaves the catch block
\* before removeSync, and false is returned all the same.
RestoreRollback ==
    /\ ~MicrotaskPending
    /\ rst.pc = "rollback"
    /\ \/ /\ Exists(tempBackup)
          /\ src' = tempBackup
          /\ tempBackup' = Absent
          /\ RestoreReturn(rst.backupId, "false", "RolledBack")
          /\ UNCHANGED events
       \/ /\ Fails(tempBackup)
          /\ src' \in AfterFailedCopy(src)
          /\ RestoreReturn(rst.backupId, "false", "RollbackFailed")
          /\ UNCHANGED tempBackup
    /\ calls' = Disturb(calls)
    /\ stable' = FALSE
    /\ UNCHANGED <<files, ledger, metadataFile, maxBackups, limits, now, nextId>>

\* Lines 758-765: target did not exist; `await fs.copy(backupFilePath,
\* targetPath)` settles.
RestoreDirect ==
    /\ ~MicrotaskPending
    /\ rst.pc = "direct"
    /\ \/ /\ Exists(ArchiveOf(rst.backupId))
          /\ src' = ArchiveOf(rst.backupId)
          /\ RestoreReturn(rst.backupId, "true", "ok")
          /\ UNCHANGED events
       \/ /\ Fails(ArchiveOf(rst.backupId))
          /\ src' \in AfterFailedCopy(src)
          /\ RestoreReturn(rst.backupId, "false", "CopyFailed")
    /\ calls' = Disturb(calls)
    /\ stable' = FALSE
    /\ UNCHANGED <<tempBackup, files, ledger, metadataFile, maxBackups, limits, now, nextId>>

\* The capture side: createBackup and whatever else touches the ledger, the
\* archives or the source while it runs.
NextCapture ==
    \/ \E d \in ContentsUpTo(limits.bytes) : WriteSource(d)
    \/ DeleteSource
    \/ \E max \in 1..limits.maxes : NewBackupManager(max)
    \/ \E c \in DOMAIN calls, dt \in 0..1 : CbStart(c, dt)
    \/ \E c \in DOMAIN calls : CbCopy(c)
    \/ \E c \in DOMAIN calls : CbHash(c)
    \/ \E c \in DOMAIN calls : CbWrite(c)
    \/ \E id \in 1..limits.ids : deleteBackup(id)
    \/ \E id \in 1..limits.ids, shot \in Screenshots :
            updateBackupScreenshot(id, shot)

\* The restore side.
NextRestore ==
    \/ \E id \in 1..limits.ids : RestoreStart(id)
    \/ RestoreTempCopy
    \/ RestoreMainCopy
    \/ RestoreRollback
    \/ RestoreDirect

\* The store alone: no SaveMonitor object exists.
Next == (NextCapture \/ NextRestore) /\ UNCHANGED monVars

Spec == Init /\ [][Next]_vars

\* restoreBackup writes neither the ledger nor an archive; SpecOverlap leaves
\* it out.
SpecOverlap == InitOverlap /\ [][NextCapture /\ UNCHANGED monVars]_vars

SpecRestore == InitRestore /\ [][Next]_vars

SpecDeep == InitDeep /\ [][Next]_vars

\* The store and its ledger file: captures of any source, an empty one
\* included, the requests that read or write the ledger, and what the outside
\* does to metadata.json.
NextLedger ==
    \/ \E d \in ContentsUpTo(limits.bytes) \cup {Empty} : WriteSource(d)
    \/ DeleteSource
    \/ \E max \in 1..limits.maxes : NewBackupManager(max)
    \/ \E c \in DOMAIN calls, dt \in 0..1 : CbStart(c, dt)
    \/ \E c \in DOMAIN calls : CbCopy(c)
    \/ \E c \in DOMAIN calls : CbHash(c)
    \/ \E c \in DOMAIN calls : CbWrite(c)
    \/ \E id \in 1..limits.ids : deleteBackup(id)
    \/ \E id \in 1..limits.ids, shot \in Screenshots :
            updateBackupScreenshot(id, shot)
    \/ getBackupList
    \/ CorruptLedger
    \/ RemoveLedger

SpecLedger == InitLedger /\ [][NextLedger /\ UNCHANGED monVars]_vars

\* ============================================================= SaveMonitor
\* (src/src/utils/configManager.js, lines 111-379)
\* Captures, and restoreBackup called while its target is missing.
NextMissing ==
    \/ \E d \in ContentsUpTo(limits.bytes) : WriteSource(d)
    \/ DeleteSource
    \/ RemoveTargetDir
    \/ \E c \in DOMAIN calls : CbStart(c, 0)
    \/ \E c \in DOMAIN calls : CbCopy(c)
    \/ \E c \in DOMAIN calls : CbHash(c)
    \/ \E c \in DOMAIN calls : CbWrite(c)
    \/ \E id \in 1..limits.ids : ~Exists(src) /\ RestoreStart(id)
    \/ RestoreDirect

SpecMissing == InitMissing /\ [][NextMissing /\ UNCHANGED monVars]_vars

\* Captures under a BackupManager whose maxBackups changes.
NextEvict ==
    \/ \E d \in ContentsUpTo(limits.bytes) \cup {Empty} : WriteSource(d)
    \/ \E max \in 1..limits.maxes : NewBackupManager(max)
    \/ \E c \in DOMAIN calls, dt \in 0..1 : CbStart(c, dt)
    \/ \E c \in DOMAIN calls : CbCopy(c)
    \/ \E c \in DOMAIN calls : CbHash(c)
    \/ \E c \in DOMAIN calls : CbWrite(c)

SpecEvict == InitEvict /\ [][NextEvict /\ UNCHANGED monVars]_vars

Busy(k) == tasks[k].kind # "none"
\* Of the idle slots the first is used.
FreeSlot(k) == ~Busy(k) /\ \A j \in 1..(k - 1) : Busy(j)

\* A run of start, checkFileChanges or forceBackup on object m.  History: for
\* a run of start, `src0` is what the source held when start was called and
\* `changed` that it was written or removed since; for a run of
\* checkFileChanges, `prevHash` is lastHash as it was when the run compared;
\* for a run of start, `stopCalled` that stop() was called on the object while
\* the run awaited its initial digest.
Task(kind, m, pc) ==
    [kind |-> kind, m |-> m, pc |-> pc,
     src0 |-> IF kind = "start" THEN src ELSE Absent,
     changed |-> FALSE,
     stopCalled |-> FALSE,
     prevHash |-> NullHash]

\* What a method of SaveMonitor returned (ret), by which way (why), and what
\* it emitted on that way.
MLast(op, m, ret, why, event) ==
    [op |-> op, m |-> m, ret |-> ret, why |-> why, event |-> event]

\* A SaveMonitor that never reports itself running.
NeverRunning(m) == FALSE

\* isRunning(), lines 331-333
isRunning(m) == monitors[m].isMonitoring

\* The test left out: start() goes on whatever isMonitoring says.
NeverAlreadyRunning(m) == FALSE

\* `if (this.isMonitoring)`, line 125
AlreadyRunning(m) == monitors[m].isMonitoring

\* A check that always finds the file.
existsSyncAlways(file) == TRUE

\* fs.existsSync(this.saveFilePath), lines 131 and 243
existsSync(file) == Exists(file)

\* A threshold of two bytes.
TooSmallBelowTwo(size) == size < 2

\* `stats.size < 1`, line 278
TooSmall(size) == size < 1

\* A comparison that always finds a difference.
HashAlwaysChanged(currentHash, lastHash) == TRUE

\* `currentHash !== this.lastHash`, line 253
HashChanged(currentHash, lastHash) == currentHash # lastHash

\* A run in slot k ends: start() returns true once it is past its try block's
\* awaits (line 194), forceBackup returns true whatever createBackupIfNeeded
\* returned (lines 362-369), checkFileChanges returns nothing.
Returns(k, task, why, event) ==
    /\ tasks' = [tasks EXCEPT ![k] = IdleTask]
    /\ mlast' = MLast(task.kind, task.m,
                      IF task.kind = "check" THEN "void" ELSE "true",
                      why, event)

\* Lines 271-306: createBackupIfNeeded up to its await.  statSync throws when
\* the file is gone (caught: an error event, false); a file of less than one
\* byte is skipped (false); otherwise createBackup is called.
createBackupIfNeeded(k, dt, task) ==
    IF ~Exists(src)
    THEN /\ dt = 0
         /\ Returns(k, task, "StatFailed", "error")
         /\ UNCHANGED storeState
    ELSE IF TooSmall(Len(src))
    THEN /\ dt = 0
         /\ Returns(k, task, "TooSmall", "none")
         /\ UNCHANGED storeState
    ELSE /\ createBackupHead(k, dt)
         /\ tasks' = [tasks EXCEPT ![k] =
                         [task EXCEPT !.pc = "backup"]]
         /\ UNCHANGED mlast

\* Lines 284-300 after the await: createBackup has returned in this step, and
\* the run that awaited it goes on to its end: 'backup-created' is emitted for
\* a record, nothing for null.
Resume(c) ==
    IF Busy(c) /\ calls'[c].pc = "idle"
    THEN IF last'.ret = "record"
         THEN Returns(c, tasks[c], "ok", "backup-created")
         ELSE Returns(c, tasks[c], "BackupNull", "none")
    ELSE UNCHANGED <<tasks, mlast>>

MonCopy(c) == CbCopy(c) /\ Resume(c) /\ UNCHANGED <<monitors, saveMonitor>>
MonHash(c) == CbHash(c) /\ Resume(c) /\ UNCHANGED <<monitors, saveMonitor>>
MonWrite(c) == CbWrite(c) /\ Resume(c) /\ UNCHANGED <<monitors, saveMonitor>>

\* Lines 124-138 of start(): the two early returns, and the start of
\* `await this.calculateFileHash(...)`.  mons is the array of objects the call
\* is made on (a new object may just have been put in it).
startOn(m, mons) ==
    IF AlreadyRunning(m)
    THEN /\ mlast' = MLast("start", m, "false", "AlreadyRunning", "none")
         /\ monitors' = mons
         /\ UNCHANGED tasks
    ELSE IF ~existsSync(src)
    THEN /\ mlast' = MLast("start", m, "false", "NotFound", "error")
         /\ monitors' = mons
         /\ UNCHANGED tasks
    ELSE /\ \E k \in DOMAIN tasks :
                /\ FreeSlot(k)
                /\ tasks' = [tasks EXCEPT ![k] = Task("start", m, "hash")]
         /\ monitors' = mons
         /\ UNCHANGED mlast

\* start() called on an object that exists.
start(m) ==
    /\ ~MicrotaskPending
    /\ OutsideEvent
    /\ startOn(m, monitors)
    /\ UNCHANGED <<saveMonitor, src, tempBackup, files, ledger, metadataFile, maxBackups, now,
                   nextId, calls, rst, limits, stable, last>>

\* Lines 138-194: the initial digest settles.  On success lastHash is set, the
\* watcher and the interval are made, isMonitoring is set and
\* createBackupIfNeeded is called; a watcher and an interval the object already
\* had stay alive with no handle left to them.  On failure the catch block
\* emits an error and start returns false (lines 195-199).
StartHashed(k, dt) ==
    /\ ~MicrotaskPending
    /\ Busy(k) /\ tasks[k].kind = "start" /\ tasks[k].pc = "hash"
    /\ LET m == tasks[k].m
       IN \/ /\ Exists(src)
             /\ monitors' = [monitors EXCEPT ![m] =
                   [@ EXCEPT !.lastHash = calculateFileHash(src),
                             !.leaked = @ \/ monitors[m].watcher
                                          \/ monitors[m].checkInterval,
                             !.watcher = TRUE,
                             !.checkInterval = TRUE,
                             !.isMonitoring = TRUE]]
             /\ createBackupIfNeeded(k, dt, tasks[k])
             /\ UNCHANGED events
          \/ /\ dt = 0
             /\ Fails(src)
             /\ tasks' = [tasks EXCEPT ![k] = IdleTask]
             /\ mlast' = MLast("start", m, "false", "HashFailed", "error")
             /\ UNCHANGED <<monitors, src, tempBackup, files, ledger, metadataFile,
                            maxBackups, now, nextId, calls, rst, limits,
                            stable, last>>
    /\ UNCHANGED saveMonitor

\* History: every run of start on object m that awaits its initial digest has
\* had stop() called on the object.
SeenStop(m) ==
    [k \in DOMAIN tasks |->
        IF tasks[k].kind = "start" /\ tasks[k].m = m /\ tasks[k].pc = "hash"
        THEN [tasks[k] EXCEPT !.stopCalled = TRUE] ELSE tasks[k]]

\* Lines 202-225
stop(m) ==
    /\ ~MicrotaskPending
    /\ IF ~monitors[m].isMonitoring
       THEN /\ mlast' = MLast("stop", m, "false", "NotRunning", "none")
            /\ UNCHANGED monitors
       ELSE /\ monitors' = [monitors EXCEPT ![m] =
                  [@ EXCEPT !.watcher = FALSE,
                            !.checkInterval = FALSE,
                            !.debounceTimeout = "null",
                            !.isMonitoring = FALSE,
                            !.notified = monitors[m].notified /\ monitors[m].leaked,
                            !.unlinked = monitors[m].unlinked /\ monitors[m].leaked]]
            /\ mlast' = MLast("stop", m, "true", "ok", "monitoring-stopped")
    /\ OutsideEvent
    /\ tasks' = SeenStop(m)
    /\ UNCHANGED <<saveMonitor, src, tempBackup, files, ledger, metadataFile,
                   maxBackups, now, nextId, calls, rst, limits, stable, last>>

\* Lines 240-249: checkFileChanges up to its await.
checkFileChanges(m) ==
    IF ~existsSync(src)
    THEN /\ mlast' = MLast("check", m, "void", "NotFound", "error")
         /\ UNCHANGED tasks
    ELSE /\ \E k \in DOMAIN tasks :
                /\ FreeSlot(k)
                /\ tasks' = [tasks EXCEPT ![k] = Task("check", m, "hash")]
         /\ UNCHANGED mlast

\* Lines 156-160 and 227-238: the watcher reports a change; handleFileChange
\* clears the debounce timer and sets it again.
WatcherChange(m) ==
    /\ ~MicrotaskPending
    /\ monitors[m].watcher \/ monitors[m].leaked
    /\ monitors[m].notified
    /\ monitors' = [monitors EXCEPT ![m] =
          [@ EXCEPT !.notified = FALSE,
                    !.debounceTimeout = "armed",
                    !.burstChecks = IF monitors[m].debounceTimeout = "armed"
                                    THEN @ ELSE 0]]
    /\ UNCHANGED <<saveMonitor, tasks, mlast, storeVars>>

\* Lines 234-237: debounceDelay has passed since the timer was last set.  The
\* handle stays in debounceTimeout.
DebounceExpiry(m) ==
    /\ ~MicrotaskPending
    /\ monitors[m].debounceTimeout = "armed"
    /\ checkFileChanges(m)
    /\ monitors' = [monitors EXCEPT ![m] =
          [@ EXCEPT !.debounceTimeout = "fired",
                    !.burstChecks = IF @ < 2 THEN @ + 1 ELSE @]]
    /\ UNCHANGED <<saveMonitor, storeVars>>

\* Lines 181-184: the interval fires (every 2000 ms, so at most once while a
\* debounce timer of 1000 ms is pending).
PollTick(m) ==
    /\ ~MicrotaskPending
    /\ monitors[m].checkInterval \/ monitors[m].leaked
    /\ checkFileChanges(m)
    /\ monitors' = [monitors EXCEPT ![m] =
          [@ EXCEPT !.burstChecks =
                IF monitors[m].debounceTimeout = "armed" /\ @ < 2
                THEN @ + 1 ELSE @]]
    /\ UNCHANGED <<saveMonitor, storeVars>>

\* Lines 249-264: the digest of checkFileChanges settles.
CheckHashed(k, dt) ==
    /\ ~MicrotaskPending
    /\ Busy(k) /\ tasks[k].kind = "check" /\ tasks[k].pc = "hash"
    /\ LET m == tasks[k].m
           currentHash == calculateFileHash(src)
           task == [tasks[k] EXCEPT !.prevHash = monitors[m].lastHash]
       IN \/ /\ Exists(src)
             /\ IF HashChanged(currentHash, monitors[m].lastHash)
                THEN /\ monitors' = [monitors EXCEPT ![m].lastHash = currentHash]
                     /\ createBackupIfNeeded(k, dt, task)
                     /\ UNCHANGED events
                ELSE /\ dt = 0
                     /\ Returns(k, task, "Unchanged", "none")
                     /\ UNCHANGED <<monitors, storeVars>>
          \/ /\ dt = 0
             /\ Fails(src)
             /\ Returns(k, task, "HashFailed", "error")
             /\ UNCHANGED <<monitors, src, tempBackup, files, ledger, metadataFile,
                            maxBackups, now, nextId, calls, rst, limits,
                            stable, last>>
    /\ UNCHANGED saveMonitor

\* Lines 357-378
forceBackup(m) ==
    /\ ~MicrotaskPending
    /\ OutsideEvent
    /\ IF isRunning(m)
       THEN \E k \in DOMAIN tasks, dt \in 0..1 :
                /\ FreeSlot(k)
                /\ createBackupIfNeeded(k, dt, Task("force", m, "backup"))
       ELSE /\ mlast' = MLast("force", m, "false", "NotRunning", "none")
            /\ UNCHANGED <<tasks, storeState>>
    /\ UNCHANGED <<monitors, saveMonitor>>

\* An object nothing will ever run on again: stopped, with no watcher, timer
\* or run of its own.  Its index is free for the next `new SaveMonitor`.
Dead(m) ==
    /\ ~monitors[m].isMonitoring
    /\ ~monitors[m].watcher /\ ~monitors[m].checkInterval /\ ~monitors[m].leaked
    /\ monitors[m].debounceTimeout # "armed"
    /\ \A k \in DOMAIN tasks : Busy(k) => tasks[k].m # m

\* main.js lines 355-371 ('start-monitoring'), 167-182 (tray toggle) and
\* 521-530 (auto-start): a new BackupManager with config.maxBackups, a new
\* SaveMonitor in this.saveMonitor, and start() on it.  The SaveMonitor that
\* this.saveMonitor held is not stopped.
StartMonitoring(max) ==
    /\ ~MicrotaskPending
    /\ \E m \in DOMAIN monitors :
          /\ Dead(m)
          /\ \A j \in 1..(m - 1) : ~Dead(j)
          /\ saveMonitor' = m
          /\ startOn(m, [monitors EXCEPT ![m] = NewSaveMonitor])
    /\ maxBackups' = max
    /\ metadataFile' = ensureBackupDir(metadataFile)
    /\ OutsideEvent
    /\ UNCHANGED <<src, tempBackup, files, ledger, now, nextId, calls, rst,
                   limits, stable, last>>

\* main.js lines 373-382 ('stop-monitoring')
StopMonitoring ==
    /\ saveMonitor # 0
    /\ stop(saveMonitor)

\* main.js lines 163-185 (tray)
toggleMonitoring(max) ==
    IF saveMonitor # 0 /\ isRunning(saveMonitor)
    THEN stop(saveMonitor)
    ELSE StartMonitoring(max)

\* History: every run of start in flight has seen the source change.
SeenChange ==
    [k \in DOMAIN tasks |->
        IF tasks[k].kind = "start"
        THEN [tasks[k] EXCEPT !.changed = TRUE] ELSE tasks[k]]

\* The game writes the watched file: a live watcher has a change to report (a file that
\* appears is reported as 'add', which starts nothing: lines 162-164).
SourceTouched ==
    /\ monitors' = [m \in DOMAIN monitors |->
          IF (monitors[m].watcher \/ monitors[m].leaked) /\ Exists(src)
          THEN [monitors[m] EXCEPT !.notified = TRUE]
          ELSE monitors[m]]
    /\ tasks' = SeenChange
    /\ UNCHANGED <<saveMonitor, mlast>>

\* The watched file is removed: a live watcher has an 'unlink' to report.
SourceRemoved ==
    /\ monitors' = [m \in DOMAIN monitors |->
          IF monitors[m].watcher \/ monitors[m].leaked
          THEN [monitors[m] EXCEPT !.unlinked = TRUE]
          ELSE monitors[m]]
    /\ tasks' = SeenChange
    /\ UNCHANGED <<saveMonitor, mlast>>

\* Lines 166-169: the watcher reports the removal; the handler emits an error
\* and does nothing else.
WatcherUnlink(m) ==
    /\ ~MicrotaskPending
    /\ monitors[m].watcher \/ monitors[m].leaked
    /\ monitors[m].unlinked
    /\ monitors' = [monitors EXCEPT ![m].unlinked = FALSE]
    /\ mlast' = MLast("unlink", m, "void", "Removed", "error")
    /\ UNCHANGED <<saveMonitor, tasks, storeVars>>

\* Lines 171-174: the watcher reports a failure of its own (the directory can
\* no longer be read, say); the handler emits an error and does nothing else.
WatcherError(m) ==
    /\ ~MicrotaskPending
    /\ monitors[m].watcher \/ monitors[m].leaked
    /\ OutsideEvent
    /\ mlast' = MLast("watcher", m, "void", "WatchError", "error")
    /\ UNCHANGED <<monitors, saveMonitor, tasks, storeState>>

NextMonitor ==
    \/ \E d \in ContentsUpTo(limits.bytes) \cup {Empty} :
            WriteSource(d) /\ SourceTouched
    \/ DeleteSource /\ SourceRemoved
    \/ \E max \in 1..limits.maxes : StartMonitoring(max)
    \/ \E max \in 1..limits.maxes : toggleMonitoring(max)
    \/ StopMonitoring
    \/ \E m \in DOMAIN monitors : start(m)
    \/ \E m \in DOMAIN monitors : forceBackup(m)
    \/ \E m \in DOMAIN monitors : WatcherChange(m)
    \/ \E m \in DOMAIN monitors : WatcherUnlink(m)
    \/ \E m \in DOMAIN monitors : WatcherError(m)
    \/ \E m \in DOMAIN monitors : DebounceExpiry(m)
    \/ \E m \in DOMAIN monitors : PollTick(m)
    \/ \E k \in DOMAIN tasks, dt \in 0..1 : StartHashed(k, dt)
    \/ \E k \in DOMAIN tasks, dt \in 0..1 : CheckHashed(k, dt)
    \/ \E c \in DOMAIN calls : MonCopy(c)
    \/ \E c \in DOMAIN calls : MonHash(c)
    \/ \E c \in DOMAIN calls : MonWrite(c)
    \/ \E id \in 1..limits.ids : deleteBackup(id) /\ UNCHANGED monVars
    \/ \E id \in 1..limits.ids, shot \in Screenshots :
            updateBackupScreenshot(id, shot) /\ UNCHANGED monVars

SpecMonitor == InitMonitor /\ [][NextMonitor]_vars

SpecSessions == InitSessions /\ [][NextMonitor]_vars

\* Nothing of the session is pending: no run of start or checkFileChanges, no
\* createBackup, no debounce timer, no change the watcher has yet to report.
Settled ==
    /\ saveMonitor # 0
    /\ \A k \in DOMAIN tasks : ~Busy(k)
    /\ \A c \in DOMAIN calls : ~InFlight(c)
    /\ monitors[saveMonitor].debounceTimeout # "armed"
    /\ ~monitors[saveMonitor].notified

\* The game writes the next content to its save file, and more than the
\* debounce delay and the poll interval pass before it writes again: the first
\* write comes at any moment after 'start-monitoring', a later one when the
\* session has settled.  The clock has moved on by the time a check sees the
\* write.
ModifyAndWait ==
    /\ saveMonitor # 0
    /\ src # Absent /\ src # Empty /\ src[1] < limits.bytes
    /\ src = <<1>> \/ Settled
    /\ now < limits.time
    /\ OutsideEvent
    /\ src' = <<src[1] + 1>>
    /\ now' = now + 1
    /\ calls' = Disturb(calls)
    /\ rst' = DisturbRestore(rst)
    /\ stable' = FALSE
    /\ UNCHANGED <<tempBackup, files, ledger, metadataFile, maxBackups, limits,
                   nextId, last>>
    /\ SourceTouched

\* One session with config.maxBackups at its ceiling, and the save file
\* rewritten under it.
NextScenario ==
    \/ saveMonitor = 0 /\ StartMonitoring(limits.maxes)
    \/ ModifyAndWait
    \/ \E m \in DOMAIN monitors : WatcherChange(m)
    \/ \E m \in DOMAIN monitors : DebounceExpiry(m)
    \/ \E m \in DOMAIN monitors : PollTick(m)
    \/ \E k \in DOMAIN tasks : StartHashed(k, 0)
    \/ \E k \in DOMAIN tasks : CheckHashed(k, 0)
    \/ \E c \in DOMAIN calls : MonCopy(c)
    \/ \E c \in DOMAIN calls : MonHash(c)
    \/ \E c \in DOMAIN calls : MonWrite(c)

SpecScenario == InitScenario /\ [][NextScenario]_vars

\* No createBackup has returned null and no error event has been emitted.
NothingFailed ==
    /\ last.op # "none" => last.ret # "null"
    /\ mlast.op # "none" => mlast.event # "error"

\* One session and its captures: the initial one, those of the poll and of the
\* watcher, and forced ones.  No record is deleted and no filesystem
\* operation fails.
NextForce ==
    /\ \/ \E d \in ContentsUpTo(limits.bytes) : WriteSource(d) /\ SourceTouched
       \/ saveMonitor = 0 /\ StartMonitoring(limits.maxes)
       \/ \E m \in DOMAIN monitors : forceBackup(m)
       \/ \E m \in DOMAIN monitors : WatcherChange(m)
       \/ \E m \in DOMAIN monitors : DebounceExpiry(m)
       \/ \E m \in DOMAIN monitors : PollTick(m)
       \/ \E k \in DOMAIN tasks, dt \in 0..1 : StartHashed(k, dt)
       \/ \E k \in DOMAIN tasks, dt \in 0..1 : CheckHashed(k, dt)
       \/ \E c \in DOMAIN calls : MonCopy(c)
       \/ \E c \in DOMAIN calls : MonHash(c)
       \/ \E c \in DOMAIN calls : MonWrite(c)
    /\ NothingFailed'

SpecForce == InitForce /\ [][NextForce]_vars

\* The same, with the poll timer firing again and again (setInterval, lines
\* 181-184) and every awaited digest, copy and ledger write settling.
SpecEventual ==
    /\ SpecForce
    /\ WF_vars((\E m \in DOMAIN monitors : PollTick(m)) /\ NothingFailed')
    /\ WF_vars((\E k \in DOMAIN tasks : StartHashed(k, 0)) /\ NothingFailed')
    /\ WF_vars((\E k \in DOMAIN tasks : CheckHashed(k, 0)) /\ NothingFailed')
    /\ WF_vars((\E c \in DOMAIN calls : MonCopy(c)) /\ NothingFailed')
    /\ WF_vars((\E c \in DOMAIN calls : MonHash(c)) /\ NothingFailed')
    /\ WF_vars((\E c \in DOMAIN calls : MonWrite(c)) /\ NothingFailed')

\* A session over a store whose metadata.json the outside may damage, and the
\* 'get-backups' request.
NextUnreadable ==
    \/ NextMonitor
    \/ getBackupList /\ UNCHANGED monVars
    \/ CorruptLedger /\ UNCHANGED monVars
    \/ RemoveLedger /\ UNCHANGED monVars

SpecUnreadable == InitUnreadable /\ [][NextUnreadable]_vars

\* ================================================================= claims
Returned == last.op = "createBackup" /\ last.ret = "record"
InLedger(backupId) == \E i \in 1..Len(ledger) : ledger[i].id = backupId
Range(s) == {s[i] : i \in 1..Len(s)}
Timestamps(backups) == {DateParse(backups[i].timestamp) : i \in 1..Len(backups)}

\* C1: whenever a createBackup call has returned a record, the ledger it has
\* just persisted holds at most maxBackups records (overlapping calls included).
RetentionBound == Returned => Len(ledger) <= last.max

\* C1 witness: a createBackup that returned after evicting.
RetentionBoundWitness ==
    Returned /\ last.evicted > 0 /\ Len(ledger) = last.max

\* C2: when cleanupOldBackups runs on more than maxBackups records, it keeps
\* maxBackups of them, and no record it removes is newer than a record it keeps.
EvictsOldest ==
    \A c \in DOMAIN calls :
        (calls[c].pc = "write" /\ Len(calls[c].pushed) > calls[c].max) =>
            LET given == Range(calls[c].pushed)
                kept == Range(calls[c].metadata)
            IN /\ Len(calls[c].metadata) = calls[c].max
               /\ Cardinality(kept) = calls[c].max
               /\ kept \subseteq given
               /\ \A r \in given \ kept : \A k \in kept :
                      DateParse(r.timestamp) <= DateParse(k.timestamp)

\* C2 witness: cleanupOldBackups has run on an overfull ledger whose records
\* are not all of one age, and whose newest record is not the first.
EvictsOldestWitness ==
    \E c \in DOMAIN calls :
        /\ calls[c].pc = "write"
        /\ Len(calls[c].pushed) > calls[c].max
        /\ DateParse(calls[c].pushed[1].timestamp) < Newest(calls[c].pushed)

\* C3: between the handlers of the store, every record of the ledger names an
\* archive file that exists.
LedgerArchiveConsistent ==
    ~MicrotaskPending =>
    \A i \in 1..Len(ledger) : ledger[i].backupFileName \in DOMAIN files

DuplicateSuppression ==
    (Returned /\ last.second) => Cardinality(DOMAIN files) <= last.filesBefore

\* C6: the record createBackup compares the new digest against has the
\* greatest timestamp of the ledger it has read.
ComparesWithNewest ==
    \A c \in DOMAIN calls :
        (calls[c].pc = "write" /\ Len(calls[c].pushed) > 1) =>
            DateParse(calls[c].compared) = calls[c].newest

\* C7: the hash of every record whose archive file exists is the digest of
\* that file's bytes.
DigestIntegrity ==
    \A i \in 1..Len(ledger) :
        ledger[i].backupFileName \in DOMAIN files =>
            ledger[i].hash = calculateFileHash(files[ledger[i].backupFileName])

RestoreFidelity ==
    [][(rst.pc \in {"maincopy", "direct"} /\ rst'.pc = "idle"
        /\ last'.ret = "true")
        => calculateFileHash(src') = rst.hash]_vars

\* C10: restoreBackup called with an id no record has, or with the id of a
\* record whose archive file is missing, returns false at once and leaves
\* target, the ledger, the archive directory and '.temp_backup' as they were.
RestorePreconditions ==
    [][\A id \in 1..limits.ids :
        (/\ RestoreStart(id)
         /\ \/ ~InLedger(id)
            \/ BackupFileName(id) \notin DOMAIN files)
        => /\ last'.op = "restoreBackup" /\ last'.id = id /\ last'.ret = "false"
           /\ last'.why = (IF InLedger(id) THEN "ArchiveMissing" ELSE "RecordNotFound")
           /\ rst'.pc = "idle"
           /\ UNCHANGED <<src, ledger, files, tempBackup>>]_vars

\* C10 witness: restoreBackup has refused a record whose archive file is gone.
RestorePreconditionsWitness ==
    /\ last.op = "restoreBackup" /\ last.ret = "false"
    /\ last.why = "ArchiveMissing"
    /\ InLedger(last.id)
    /\ BackupFileName(last.id) \notin DOMAIN files
    /\ tempBackup = Absent

\* C9, for records that satisfy C7 when restoreBackup is called: the digest of
\* the restored target is the record's hash.
RestoreFidelityOfSoundRecords ==
    [][(rst.pc \in {"maincopy", "direct"} /\ rst'.pc = "idle"
        /\ last'.ret = "true"
        /\ calculateFileHash(ArchiveOf(rst.backupId)) = rst.hash)
        => calculateFileHash(src') = rst.hash]_vars

\* ------------------------------------------------- claims on SaveMonitor
\* A run that is part of a capture: a checkFileChanges run, or any run that is
\* waiting for createBackup.
Capturing(k) == Busy(k) /\ (tasks[k].kind = "check" \/ tasks[k].pc = "backup")

\* A session: an object that is monitoring, with a live watcher or interval.
Active(m) ==
    /\ monitors[m].isMonitoring
    /\ monitors[m].watcher \/ monitors[m].checkInterval

\* The run in slot k ends in this step.
Ends(k) == Busy(k) /\ tasks'[k].kind = "none"

\* C11: a burst of triggers (change notifications and poll ticks with no
\* expiry of the debounce timer between them) starts at most one
\* checkFileChanges run.
DebounceOneCheck == \A m \in DOMAIN monitors : monitors[m].burstChecks <= 1

\* C12: a SaveMonitor has at most one capture in flight.
SingleFlight ==
    \A m \in DOMAIN monitors :
        Cardinality({k \in DOMAIN tasks : Capturing(k) /\ tasks[k].m = m}) <= 1

\* C13: every write of metadata.json is made from the ledger as it is when
\* the write happens: createBackup writes the retained part of the present
\* ledger with its record appended, deleteBackup the present ledger without
\* the one record, updateBackupScreenshot the present ledger with the one
\* screenshot set; so no record or screenshot written in between is lost.
LedgerAtomicity ==
    [][/\ \A c \in DOMAIN calls :
            CbWrite(c) =>
                ledger' = backupsToKeep(
                              Append(ledger,
                                     BackupInfo(calls[c], calls[c].fileHash)),
                              calls[c].max)
       /\ \A id \in 1..limits.ids :
            deleteBackup(id) =>
                /\ Range(ledger') = {r \in Range(ledger) : r.id # id}
                /\ Len(ledger') >= Len(ledger) - 1
       /\ \A id \in 1..limits.ids, shot \in Screenshots :
            updateBackupScreenshot(id, shot) =>
                /\ Len(ledger') = Len(ledger)
                /\ \A i \in 1..Len(ledger) :
                      ledger'[i] = IF ledger[i].id = id
                                   THEN [ledger[i] EXCEPT !.screenshot = shot]
                                   ELSE ledger[i]]_vars

\* C13 witness: a createBackup has returned whose flight something else
\* disturbed, and the ledger holds its record after a record with a screenshot.
LedgerAtomicityWitness ==
    /\ Returned /\ ~stable
    /\ Len(ledger) = 2
    /\ ledger[1].screenshot # NoScreenshot
    /\ ledger[2].id = last.id

\* C14: at most one session is active.
OneSession == Cardinality({m \in DOMAIN monitors : Active(m)}) <= 1

\* C15: start() on an object whose isMonitoring is true returns false and
\* changes no field of any SaveMonitor, starts no run and no createBackup, and
\* leaves the ledger and the archive directory alone.
AlreadyRunningRefused ==
    [][\A m \in DOMAIN monitors :
        (start(m) /\ monitors[m].isMonitoring) =>
            /\ mlast' = MLast("start", m, "false", "AlreadyRunning", "none")
            /\ UNCHANGED <<monitors, tasks, calls, ledger, files>>]_vars

\* C15 witness: start() has been refused on an object that is monitoring.
AlreadyRunningRefusedWitness ==
    /\ mlast.op = "start" /\ mlast.why = "AlreadyRunning"
    /\ Active(mlast.m)

\* C16: start() on an object that is not monitoring, the source missing,
\* returns false and emits an error; no run is started, the object has no
\* watcher, interval or pending debounce timer and is not monitoring, and the
\* ledger is as it was.
NotFoundOnStart ==
    [][(/\ ~Exists(src)
        /\ \/ \E m \in DOMAIN monitors : start(m) /\ ~monitors[m].isMonitoring
           \/ \E max \in 1..limits.maxes : StartMonitoring(max))
        => /\ mlast'.op = "start" /\ mlast'.ret = "false"
           /\ mlast'.why = "NotFound" /\ mlast'.event = "error"
           /\ ~monitors'[mlast'.m].isMonitoring
           /\ monitors'[mlast'.m].watcher = monitors[mlast'.m].watcher
           /\ monitors'[mlast'.m].checkInterval = monitors[mlast'.m].checkInterval
           /\ monitors'[mlast'.m].leaked = monitors[mlast'.m].leaked
           /\ monitors'[mlast'.m].debounceTimeout # "armed"
           /\ UNCHANGED <<tasks, calls, ledger, files>>]_vars

\* C16 witness: start() has failed for want of the source.
NotFoundOnStartWitness ==
    /\ mlast.op = "start" /\ mlast.why = "NotFound"
    /\ ~Exists(src)
    /\ ~monitors[mlast.m].isMonitoring /\ ~monitors[mlast.m].watcher
    /\ ~monitors[mlast.m].checkInterval

\* The record of the last createBackup was evicted by that call's own
\* retention step: the ledger is full of records that are not older.
EvictedAtOnce(backups) ==
    /\ last'.op = "createBackup" /\ last'.ret = "record"
    /\ Len(backups) = last'.max
    /\ \A t \in Timestamps(backups) : t >= DateParse(last'.timestamp)

Compared(k) ==
    /\ \E dt \in 0..1 : CheckHashed(k, dt)
    /\ Exists(src)
    /\ ~(Ends(k) /\ mlast'.why = "HashFailed")

\* When the digests are equal nothing is captured.
EqualMeansNothing(k) ==
    calculateFileHash(src) = monitors[tasks[k].m].lastHash =>
        /\ UNCHANGED <<ledger, files, calls>>
        /\ monitors'[tasks[k].m].lastHash = monitors[tasks[k].m].lastHash
        /\ mlast'.event # "backup-created"

\* C18 as claimed: a check calls createBackup if and only if the digest it
\* has computed differs from lastHash; when they are equal, the ledger, the
\* archive directory and lastHash stay as they are and nothing is emitted.
ChangeGatingAsClaimed ==
    [][\A k \in DOMAIN tasks :
        Compared(k) =>
            /\ calls'[k].pc = "copy"
                   <=> calculateFileHash(src) # monitors[tasks[k].m].lastHash
            /\ EqualMeansNothing(k)]_vars

\* C18 amended: a check calls createBackup if and only if the digest differs
\* from lastHash and the source holds at least one byte.
ChangeGating ==
    [][\A k \in DOMAIN tasks :
        Compared(k) =>
            /\ calls'[k].pc = "copy"
                   <=> /\ calculateFileHash(src) # monitors[tasks[k].m].lastHash
                       /\ Len(src) >= 1
            /\ EqualMeansNothing(k)]_vars

\* C18 witness: a check has found the digest changed and called createBackup.
ChangeGatingWitness ==
    \E k \in DOMAIN tasks :
        /\ Busy(k) /\ tasks[k].kind = "check" /\ tasks[k].pc = "backup"
        /\ calls[k].pc = "copy"
        /\ monitors[tasks[k].m].lastHash # tasks[k].prevHash
        /\ tasks[k].prevHash # NullHash

\* C19: when createBackup has returned null to a check, lastHash is what it
\* was before the check compared.
RetryAfterFailure ==
    [][\A k \in DOMAIN tasks :
        (/\ Ends(k) /\ tasks[k].kind = "check" /\ tasks[k].pc = "backup"
         /\ mlast'.why = "BackupNull")
        => monitors'[tasks[k].m].lastHash = tasks[k].prevHash]_vars

\* forceBackup on an object that is not monitoring returns false and captures
\* nothing; a forceBackup whose createBackup returns a record returns true.
ForceReturns ==
    /\ \A m \in DOMAIN monitors :
          (forceBackup(m) /\ ~monitors[m].isMonitoring) =>
              /\ mlast' = MLast("force", m, "false", "NotRunning", "none")
              /\ UNCHANGED <<tasks, calls, ledger, files>>
    /\ \A k \in DOMAIN tasks :
          (Ends(k) /\ tasks[k].kind = "force" /\ last'.ret = "record"
           /\ last'.id = calls[k].backupId) =>
              mlast' = MLast("force", tasks[k].m, "true", "ok", "backup-created")

\* forceBackup has called createBackup in this step.
ForceInvoked(m) ==
    \E k \in DOMAIN tasks :
        /\ ~Busy(k)
        /\ tasks'[k].kind = "force" /\ tasks'[k].m = m
        /\ calls'[k].pc = "copy"

\* C20 as claimed: forceBackup on an object that is monitoring calls
\* createBackup, whatever lastHash is; it returns true when createBackup
\* returns a record, duplicate or not; on an object that is not monitoring it
\* returns false and captures nothing.
ForceBackupAsClaimed ==
    [][/\ \A m \in DOMAIN monitors :
            (forceBackup(m) /\ monitors[m].isMonitoring) => ForceInvoked(m)
       /\ ForceReturns]_vars

\* C20 amended: the same, createBackup being called when the source exists
\* and holds at least one byte.
ForceBackup ==
    [][/\ \A m \in DOMAIN monitors :
            (forceBackup(m) /\ monitors[m].isMonitoring) =>
                (ForceInvoked(m) <=> (Exists(src) /\ Len(src) >= 1))
       /\ ForceReturns]_vars

\* C20 witness: forceBackup has returned true for a capture of content whose
\* digest was lastHash, recorded as a duplicate.
ForceBackupWitness ==
    /\ mlast.op = "force" /\ mlast.ret = "true" /\ mlast.why = "ok"
    /\ last.op = "createBackup" /\ last.ret = "record" /\ last.isDuplicate
    /\ Exists(src)
    /\ monitors[mlast.m].lastHash = calculateFileHash(src)

\* An object with nothing left that could start a check: no watcher, no
\* interval, no pending debounce timer, none with a lost handle either.
Quiesced(mon) ==
    /\ ~mon.isMonitoring
    /\ ~mon.watcher /\ ~mon.checkInterval /\ ~mon.leaked
    /\ mon.debounceTimeout # "armed"

\* C21: stop() on an object that is monitoring returns true and leaves it not
\* monitoring, with no watcher, interval or pending debounce timer that could
\* still start a check; stop() on an object that is not monitoring returns
\* false, changes no state and emits nothing.
StopCancels ==
    [][\A m \in DOMAIN monitors :
        stop(m) =>
            IF monitors[m].isMonitoring
            THEN /\ mlast' = MLast("stop", m, "true", "ok", "monitoring-stopped")
                 /\ Quiesced(monitors'[m])
            ELSE /\ mlast' = MLast("stop", m, "false", "NotRunning", "none")
                 /\ tasks' = SeenStop(m)
                 /\ UNCHANGED <<monitors, storeState>>]_vars

\* The removal of the watched file is noticed on object m in this step: by
\* the watcher's 'unlink', or by a check that finds no file.
RemovalNoticed(m) ==
    \/ WatcherUnlink(m)
    \/ /\ ~Exists(src)
       /\ PollTick(m) \/ DebounceExpiry(m)

\* C22: when the removal of the watched file is noticed on an object that is
\* monitoring, an error is emitted and the object is left stopped: not
\* monitoring, with no watcher and no interval.
RemovalStopsSession ==
    [][\A m \in DOMAIN monitors :
        (RemovalNoticed(m) /\ monitors[m].isMonitoring) =>
            /\ mlast'.m = m /\ mlast'.event = "error"
            /\ ~isRunning(m)'
            /\ ~monitors'[m].watcher /\ ~monitors'[m].checkInterval]_vars

\* A failure reaches the session in this step: the watcher reports an error,
\* the digest of a check fails, or createBackup returns null to the run that
\* awaited it.
FailureOn(m) ==
    \/ WatcherError(m)
    \/ \E k \in DOMAIN tasks :
          /\ Ends(k) /\ tasks[k].m = m
          /\ \/ tasks[k].kind = "check" /\ mlast'.why = "HashFailed"
             \/ tasks[k].pc = "backup" /\ mlast'.why = "BackupNull"

\* C23: a failure that reaches a session which is monitoring is emitted as an
\* error, and leaves the object monitoring with its interval alive.
FailuresReported ==
    [][\A m \in DOMAIN monitors :
        (FailureOn(m) /\ monitors[m].isMonitoring /\ monitors[m].checkInterval) =>
            /\ mlast'.m = m /\ mlast'.event = "error"
            /\ monitors'[m].isMonitoring /\ monitors'[m].checkInterval]_vars

\* ------------------------------------------------- claims on the ledger
\* The ledger as the program reads it, and the ids of its records.
Persisted == getMetadata
Ids(backups) == {backups[i].id : i \in 1..Len(backups)}

\* C24: no createBackup gets past its entry while the source holds zero
\* bytes, whoever calls it (so nothing is archived and no record appended),
\* and a SaveMonitor run that skips such a source emits nothing.
ZeroByteNoOp ==
    [][src = Empty =>
        /\ \A c \in DOMAIN calls :
              calls[c].pc = "idle" => calls'[c].pc = "idle"
        /\ UNCHANGED <<ledger, files>>
        /\ (mlast' # mlast /\ mlast'.why = "TooSmall") => mlast'.event = "none"]_vars

\* C26: deleteBackup(id), the ledger holding a record of that id, either
\* returns true, having removed that record from metadata.json and its
\* archive file from the directory and left every other record and file as it
\* was, or returns false because the write of metadata.json failed.
DeleteExactly ==
    [][\A id \in 1..limits.ids :
        (deleteBackup(id) /\ id \in Ids(Persisted)) =>
            LET i == FindIndex(Persisted, id)
            IN \/ /\ last'.ret = "true"
                  /\ Persisted' = Splice(Persisted, i)
                  /\ files' = RemoveFiles(files, {Persisted[i].backupFileName})
               \/ /\ last'.ret = "false"
                  /\ last'.why = "LedgerWriteFailed"]_vars

\* C27: getBackupList returns the records of the persisted ledger, each once,
\* no record before a newer one, and writes nothing.
ListNewestFirst ==
    [][getBackupList =>
        LET list == last'.list
        IN /\ Len(list) = Len(Persisted)
           /\ Range(list) = Range(Persisted)
           /\ \A i \in 1..Len(list) : \A j \in i..Len(list) :
                 DateParse(list[i].timestamp) >= DateParse(list[j].timestamp)
           /\ UNCHANGED <<ledger, metadataFile, files>>]_vars

\* C27 witness: a list of two records has been returned in another order than
\* the ledger keeps them in.
ListNewestFirstWitness ==
    /\ last.op = "getBackupList"
    /\ metadataFile = "json"
    /\ Len(last.list) = 2
    /\ last.list # ledger
    /\ DateParse(last.list[1].timestamp) > DateParse(last.list[2].timestamp)

\* C28: updateBackupScreenshot(id, ref) returns false and leaves metadata.json
\* as it is when no record has the id; otherwise no record but that one is
\* changed and of it nothing but the screenshot, which is ref when true is
\* returned; and a second application with the same ref would change nothing.
AttachAsset ==
    [][\A id \in 1..limits.ids, ref \in Screenshots :
        updateBackupScreenshot(id, ref) =>
            IF id \notin Ids(Persisted)
            THEN last'.ret = "false" /\ UNCHANGED <<ledger, metadataFile>>
            ELSE /\ Len(Persisted') = Len(Persisted)
                 /\ \A i \in 1..Len(Persisted) :
                       IF Persisted[i].id = id
                       THEN /\ [Persisted'[i] EXCEPT !.screenshot = ref]
                                = [Persisted[i] EXCEPT !.screenshot = ref]
                            /\ last'.ret = "true" => Persisted'[i].screenshot = ref
                       ELSE Persisted'[i] = Persisted[i]
                 /\ last'.ret = "true" =>
                       setScreenshot(Persisted', FindIndex(Persisted', id), ref)
                           = Persisted']_vars

\* C28 witness: of two records one has been given a screenshot.
AttachAssetWitness ==
    /\ last.op = "updateBackupScreenshot" /\ last.ret = "true"
    /\ Len(Persisted) = 2
    /\ \E i, j \in 1..2 :
          /\ Persisted[i].id = last.id /\ Persisted[i].screenshot \in Screenshots
          /\ Persisted[j].screenshot = NoScreenshot

\* C29: a createBackup that gets as far as the ledger pushes exactly one record,
\* of a new id, onto the ledger it reads, before cleanupOldBackups; and no step of the
\* program takes a record out of the persisted ledger but deleteBackup of its
\* id and the eviction of a createBackup that returns a record.
LedgerGrowth ==
    [][/\ \A c \in DOMAIN calls :
            (CbHash(c) /\ calls'[c].pc = "write") =>
                /\ Len(calls'[c].pushed) = Len(Persisted) + 1
                /\ Ids(calls'[c].pushed) = Ids(Persisted) \cup {calls[c].backupId}
                /\ calls[c].backupId \notin Ids(Persisted)
       /\ \A id \in Ids(Persisted) \ Ids(Persisted') :
            \/ deleteBackup(id)
            \/ \E c \in DOMAIN calls :
                  /\ CbWrite(c) /\ last'.ret = "record"
                  /\ id \in Ids(backupsToDelete(calls[c].pushed, calls[c].max))
            \/ CorruptLedger \/ RemoveLedger]_vars

\* C29 witness: a ledger that grew to two records has lost one to deleteBackup.
LedgerGrowthWitness ==
    /\ last.op = "deleteBackup" /\ last.ret = "true"
    /\ nextId > 2
    /\ Len(Persisted) = 1
    /\ Persisted[1].id # last.id

\* A handler reads the ledger in this step.
ReadsLedger ==
    \/ \E c \in DOMAIN calls : MonHash(c)
    \/ getBackupList /\ UNCHANGED monVars
    \/ \E id \in 1..limits.ids : deleteBackup(id) /\ UNCHANGED monVars
    \/ \E id \in 1..limits.ids, ref \in Screenshots :
          updateBackupScreenshot(id, ref) /\ UNCHANGED monVars

\* C30: while metadata.json is missing or cannot be parsed, getMetadata
\* returns the empty ledger; a handler that reads it then raises nothing (no
\* SaveMonitor field changes, no error is emitted), a createBackup goes on
\* with a ledger of its own record alone, and getBackupList returns the empty
\* list.
UnreadableIsEmpty ==
    [][metadataFile # "json" =>
        /\ getMetadata = << >>
        /\ ReadsLedger =>
              /\ UNCHANGED monitors
              /\ mlast' # mlast => mlast'.event # "error"
        /\ \A c \in DOMAIN calls :
              (CbHash(c) /\ calls'[c].pc = "write") => Len(calls'[c].pushed) = 1
        /\ (getBackupList /\ UNCHANGED monVars) => last'.list = << >>]_vars

\* C30 witness: a session is running, metadata.json, which held a record, has
\* become unparseable, and getBackupList has returned the empty list.
UnreadableIsEmptyWitness ==
    /\ metadataFile = "unparseable"
    /\ ledger # << >>
    /\ last.op = "getBackupList" /\ last.list = << >>
    /\ saveMonitor # 0 /\ Active(saveMonitor)

\* The last content has been written and the wait after it is over.
ScenarioEnd == src = <<limits.bytes>> /\ Settled

\* C25: when the save file has gone from its first content through to its
\* last under one session, each write followed by its wait, the ledger holds
\* exactly maxBackups records, the archive file of each exists, their digests
\* are those of the last maxBackups contents, and none is the digest of the
\* first content.
RetentionScenario ==
    ScenarioEnd =>
        /\ Len(ledger) = maxBackups
        /\ \A i \in 1..Len(ledger) : ledger[i].backupFileName \in DOMAIN files
        /\ {ledger[i].hash : i \in 1..Len(ledger)} =
              {calculateFileHash(<<b>>) :
                  b \in (limits.bytes - maxBackups + 1)..limits.bytes}
        /\ \A i \in 1..Len(ledger) : ledger[i].hash # calculateFileHash(<<1>>)

\* C25 witness: the scenario has run to its end and a capture was made for
\* each content the file held, so that eviction has run twice.
RetentionScenarioWitness ==
    /\ ScenarioEnd
    /\ maxBackups = ScenarioMaxBackups
    /\ Len(ledger) = maxBackups
    /\ nextId = ScenarioByte + 1

\* C31: when cleanupOldBackups evicts, the archive file of every overflow
\* record is removed except those whose removeSync throws, whichever record
\* of the loop that was, no overflow record is left in the ledger the call
\* goes on to write, and the ledger it writes holds none of them.
EvictionNotAborted ==
    [][\A c \in DOMAIN calls :
          /\ (CbHash(c) /\ calls'[c].pc = "write") =>
                LET doomed == backupsToDelete(calls'[c].pushed, calls[c].max)
                IN /\ \A i \in 1..Len(doomed) :
                         doomed[i].backupFileName \notin calls'[c].stuck =>
                             doomed[i].backupFileName \notin DOMAIN files'
                   /\ Ids(calls'[c].metadata) \cap Ids(doomed) = {}
                   /\ Len(calls'[c].pushed) > calls[c].max =>
                         Len(calls'[c].metadata) = calls[c].max
          /\ (CbWrite(c) /\ last'.ret = "record") =>
                Ids(ledger') \cap
                    Ids(backupsToDelete(calls[c].pushed, calls[c].max)) = {}]_vars

\* C31 witness: an eviction of two records in which removing the file of the
\* first failed and the file of the second was removed, and the ledger
\* written afterwards holds neither.
EvictionNotAbortedWitness ==
    /\ last.op = "createBackup" /\ last.ret = "record" /\ last.evicted >= 2
    /\ \E n \in DOMAIN files : \A i \in 1..Len(ledger) : ledger[i].backupFileName # n
    /\ last.stuckFirst

\* C32: when the ledger with the record just pushed has at most maxBackups
\* records, cleanupOldBackups removes no archive file and the ledger the call
\* goes on to write is the pushed ledger, record for record in the same order.
EvictionNoOp ==
    [][\A c \in DOMAIN calls :
          (/\ CbHash(c) /\ calls'[c].pc = "write"
           /\ Len(calls'[c].pushed) <= calls[c].max) =>
              /\ files' = files
              /\ calls'[c].metadata = calls'[c].pushed]_vars

\* C32 witness: cleanupOldBackups has run on a ledger of two records made at
\* different times, under a ceiling of two, with archive files present.
EvictionNoOpWitness ==
    \E c \in DOMAIN calls :
        /\ calls[c].pc = "write"
        /\ Len(calls[c].pushed) = 2 /\ calls[c].max >= 2
        /\ calls[c].pushed[1].timestamp # calls[c].pushed[2].timestamp
        /\ calls[c].metadata = calls[c].pushed
        /\ Cardinality(DOMAIN files) = 2

\* C33: restoreBackup called while its target is missing, on a record whose
\* archive file is there, makes the target's parent directory if that is
\* missing too and goes to the direct copy; neither step touches the
\* '.temp_backup' sibling; and when it returns true the target holds the
\* bytes of the archive file.
RestoreToMissing ==
    [][/\ \A id \in 1..limits.ids :
             (RestoreStart(id) /\ ~Exists(src) /\ rst'.pc # "idle") =>
                 /\ rst'.pc = "direct"
                 /\ src' = Absent
                 /\ UNCHANGED tempBackup
       /\ RestoreDirect =>
             /\ UNCHANGED tempBackup
             /\ last'.ret = "true" =>
                   /\ Exists(src')
                   /\ src' = ArchiveOf(rst.backupId)]_vars

\* C33 witness: a restore to a missing target has returned true, the target
\* holds the bytes of the archive file and there is no '.temp_backup'.
RestoreToMissingWitness ==
    /\ last.op = "restoreBackup" /\ last.ret = "true"
    /\ Exists(src) /\ src = ArchiveOf(last.id)
    /\ tempBackup = Absent
    /\ rst.pc = "idle"

\* The createBackup that the run in slot c awaits returns in this step.
CreateBackupReturns(c) == Busy(c) /\ InFlight(c) /\ calls'[c].pc = "idle"

\* C34: 'backup-created' is emitted in the step in which a createBackup
\* awaited by a run of the session returns a record, for the session of that
\* run, with the record in the ledger as metadata.json then holds it; it is
\* not emitted when createBackup returns null, nor in any other step.
BackupCreatedOrdering ==
    [][/\ \A c \in DOMAIN calls :
             CreateBackupReturns(c) =>
                 /\ last'.ret = "record" =>
                       /\ mlast' = MLast(tasks[c].kind, tasks[c].m,
                                         mlast'.ret, "ok", "backup-created")
                       /\ metadataFile' = "json"
                       /\ \E i \in 1..Len(ledger') : ledger'[i].id = last'.id
                 /\ last'.ret = "null" => mlast'.event # "backup-created"
       /\ (mlast' # mlast /\ mlast'.event = "backup-created") =>
             \E c \in DOMAIN calls :
                 CreateBackupReturns(c) /\ last'.ret = "record"]_vars

\* C35: when a createBackup has returned a record, the source not having
\* been written since that call began, and no call is in flight, the archive
\* directory holds a file with the bytes of the source; and a ledger that is
\* not empty is never left with no archive file at all.
NoLossThroughDuplicates ==
    (Returned /\ stable /\ \A c \in DOMAIN calls : ~InFlight(c)) =>
        /\ \E n \in DOMAIN files : files[n] = src
        /\ ledger # << >> => DOMAIN files # {}

\* C36: a start() that resumes from its initial digest on an object that
\* another start() has meanwhile made running (it has a watcher or a poll
\* timer) creates no watcher and no timer and returns false.
ConcurrentStart ==
    [][\A k \in DOMAIN tasks, dt \in 0..1 :
          (/\ StartHashed(k, dt)
           /\ \/ monitors[tasks[k].m].watcher
              \/ monitors[tasks[k].m].checkInterval) =>
              /\ UNCHANGED monitors
              /\ tasks'[k] = IdleTask
              /\ mlast' = MLast("start", tasks[k].m, "false", mlast'.why,
                                mlast'.event)]_vars

\* stop() has returned true on object m and start() has not been called on it
\* since: it is not running and no run of start() is in flight on it.
StoppedFor(m) ==
    /\ ~monitors[m].isMonitoring
    /\ \A k \in DOMAIN tasks :
          (Busy(k) /\ tasks[k].m = m) => tasks[k].kind # "start"

\* C37: a createBackup awaited by a run of a stopped session does not return
\* a record, and no 'backup-created' is emitted for that session.
NoCaptureAfterStop ==
    [][\A c \in DOMAIN calls :
          (CreateBackupReturns(c) /\ StoppedFor(tasks[c].m)) =>
              /\ last'.ret # "record"
              /\ mlast'.event # "backup-created"]_vars

\* C38: a start() on whose object stop() was called while it awaited its
\* initial digest makes no watcher and no poll timer and does not set
\* isMonitoring when the digest settles: the object stays as quiet as
\* stop() found it.
StopDuringStart ==
    [][\A k \in DOMAIN tasks, dt \in 0..1 :
          (StartHashed(k, dt) /\ tasks[k].stopCalled) =>
              /\ ~monitors'[tasks[k].m].isMonitoring
              /\ monitors'[tasks[k].m].watcher = monitors[tasks[k].m].watcher
              /\ monitors'[tasks[k].m].checkInterval
                    = monitors[tasks[k].m].checkInterval]_vars

\* The session is running on a save file that holds d, and lastHash is not
\* the digest of d.
ChangedTo(d) ==
    /\ saveMonitor # 0
    /\ monitors[saveMonitor].isMonitoring
    /\ monitors[saveMonitor].checkInterval
    /\ src = d
    /\ monitors[saveMonitor].lastHash # calculateFileHash(d)
    /\ nextId <= limits.ids

\* C39: whenever the session is running and the save file holds a content of
\* at least one byte whose digest is not lastHash, then eventually the ledger
\* holds a record with the digest of that content, unless the file is written
\* again first.
EventualCapture ==
    \A d \in ContentsUpTo(ForceByte) :
        ChangedTo(d) ~>
            \/ \E i \in 1..Len(ledger) : ledger[i].hash = calculateFileHash(d)
            \/ src # d

\* The last thing the store did was a createBackup that returned a record of
\* the source as it still is, and the last method of object m to return was
\* the forceBackup that made it.
ForceCaptured(m) ==
    /\ Returned /\ stable
    /\ Exists(src)
    /\ mlast = MLast("force", m, "true", "ok", "backup-created")

\* C40: when forceBackup has captured the source and the source is unchanged
\* since, a run of checkFileChanges whose digest then settles calls no
\* createBackup.
ForceKeepsDigest ==
    [][\A k \in DOMAIN tasks, dt \in 0..1 :
          (CheckHashed(k, dt) /\ ForceCaptured(tasks[k].m)) =>
              /\ calls'[k].pc = "idle"
              /\ UNCHANGED <<ledger, files, nextId>>]_vars

====
